---------------------------- MODULE Spec2Model ----------------------------
(***************************************************************************)
(* Model of the Minecraft addon manager (src/app.py): the entity           *)
(* identifier probe and directory scan, the inventory walk and its text    *)
(* report, the client-side report parser, and the install / remove / list  *)
(* request handlers with the external processes they start.                *)
(*                                                                         *)
(* Text is modelled as sequences of one-character strings, so that         *)
(* formatting, trimming, splitting and the parser's pattern are computed   *)
(* rather than assumed.                                                    *)
(***************************************************************************)
EXTENDS Integers, Sequences, FiniteSets, TLC

(***************************************************************************)
(* Bounds of the model.                                                    *)
(***************************************************************************)
\* packages installed in total (behavior_packs and resource_packs together)
MaxPacks == 2
\* .json files in total below the entity / entities directories
MaxFiles == 1
\* definition files in one entity directory handed to extract_entity_identifiers
MaxScanFiles == 2
\* lines of a text handed to parseAddonList
MaxLines == 3
\* install requests handled at the same time
MaxRequests == 2

(***************************************************************************)
(* Text helpers.                                                           *)
(***************************************************************************)
NL == "\n"
SP == " "

IsSpace(c) == c = SP \/ c = NL

\* Python str.strip() / JavaScript String.trim(): drop leading and trailing whitespace
RECURSIVE LStrip(_)
LStrip(s) == IF s # <<>> /\ IsSpace(Head(s)) THEN LStrip(Tail(s)) ELSE s

RECURSIVE RStrip(_)
RStrip(s) == IF s # <<>> /\ IsSpace(s[Len(s)]) THEN RStrip(SubSeq(s, 1, Len(s) - 1)) ELSE s

Strip(s) == RStrip(LStrip(s))

\* bash $(...) command substitution: only trailing newlines are removed
RECURSIVE StripTrailingNewlines(_)
StripTrailingNewlines(s) ==
    IF s # <<>> /\ s[Len(s)] = NL
    THEN StripTrailingNewlines(SubSeq(s, 1, Len(s) - 1))
    ELSE s

StartsWith(s, p) == Len(s) >= Len(p) /\ SubSeq(s, 1, Len(p)) = p

\* JavaScript String.includes
Includes(s, p) == \E i \in 1..(Len(s) - Len(p) + 1) : SubSeq(s, i, i + Len(p) - 1) = p

DigitChars == <<"0", "1", "2", "3", "4", "5", "6", "7", "8", "9">>

\* decimal rendering of a natural number (shell arithmetic expansion / wc -l)
RECURSIVE Decimal(_)
Decimal(n) == IF n < 10 THEN <<DigitChars[n + 1]>> ELSE Decimal(n \div 10) \o <<DigitChars[(n % 10) + 1]>>

\* JavaScript String.split('\n')
RECURSIVE SplitAt(_, _, _)
SplitAt(s, start, breaks) ==
    IF breaks = {} THEN <<SubSeq(s, start, Len(s))>>
    ELSE LET k == CHOOSE i \in breaks : \A j \in breaks : i <= j
         IN  <<SubSeq(s, start, k - 1)>> \o SplitAt(s, k + 1, breaks \ {k})

SplitLines(s) == SplitAt(s, 1, {i \in 1..Len(s) : s[i] = NL})

\* echo "<text>"
Echo(s) == s \o <<NL>>

RECURSIVE Flatten(_)
Flatten(ss) == IF ss = <<>> THEN <<>> ELSE Head(ss) \o Flatten(Tail(ss))

(***************************************************************************)
(* Literal texts of the program.                                           *)
(***************************************************************************)
HeaderBehavior == <<"=","=","="," ","B","e","h","a","v","i","o","r"," ","P","a","c","k","s"," ","=","=","=">>
HeaderResource == <<"=","=","="," ","R","e","s","o","u","r","c","e"," ","P","a","c","k","s"," ","=","=","=">>
NoBehaviorDir == <<" "," ","(","N","o"," ","b","e","h","a","v","i","o","r"," ","p","a","c","k","s"," ","d","i","r","e","c","t","o","r","y"," ","f","o","u","n","d",")">>
NoResourceDir == <<" "," ","(","N","o"," ","r","e","s","o","u","r","c","e"," ","p","a","c","k","s"," ","d","i","r","e","c","t","o","r","y"," ","f","o","u","n","d",")">>
RecordPrefix == <<" "," ","-"," ">>
EntitiesSuffix == <<" ","e","n","t","i","t","i","e","s",")">>
SummonPrefix == <<" "," "," "," "," "," ","/","s","u","m","m","o","n"," ">>
StrNull == <<"n","u","l","l">>
Vanilla == <<"v","a","n","i","l","l","a">>
Chemistry == <<"c","h","e","m","i","s","t","r","y">>
Experimental == <<"e","x","p","e","r","i","m","e","n","t","a","l">>
Editor == <<"e","d","i","t","o","r">>

(***************************************************************************)
(* JSON values and the jq filter                                           *)
(*   (."minecraft:entity"?.description.identifier) //                      *)
(*   (."minecraft:client_entity"?.description.identifier) // empty         *)
(***************************************************************************)
KeyEntity == "minecraft:entity"
KeyClientEntity == "minecraft:client_entity"

JNull == [t |-> "null", s |-> <<>>, f |-> <<>>]
JFalse == [t |-> "false", s |-> <<>>, f |-> <<>>]
JStr(s) == [t |-> "str", s |-> s, f |-> <<>>]
JArr == [t |-> "arr", s |-> <<>>, f |-> <<>>]
JObj(f) == [t |-> "obj", s |-> <<>>, f |-> f]

\* outcome of a jq path expression on one input: a value, nothing, or an error
JqVal(v) == [r |-> "val", v |-> v]
JqEmpty == [r |-> "empty", v |-> JNull]
JqError == [r |-> "error", v |-> JNull]

\* .key : member of an object (null when missing), null of null, an error otherwise
JqIndex(in, key) ==
    IF in.r # "val" THEN in
    ELSE IF in.v.t = "obj" THEN JqVal(IF key \in DOMAIN in.v.f THEN in.v.f[key] ELSE JNull)
    ELSE IF in.v.t = "null" THEN JqVal(JNull)
    ELSE JqError

\* e? : an error of e becomes no output
JqTry(r) == IF r.r = "error" THEN JqEmpty ELSE r

\* a // b : the output of a unless a fails, is empty, or is null or false
JqAlternative(a, b) ==
    IF a.r = "val" /\ a.v.t \notin {"null", "false"} THEN a ELSE b

\* ."<key>"?.description.identifier
JqIdentifierPath(doc, key) ==
    JqIndex(JqIndex(JqTry(JqIndex(JqVal(doc), key)), "description"), "identifier")

\* (the filter with its two alternatives in the other order)
JqFilterClientFirst(doc) ==
    JqAlternative(JqIdentifierPath(doc, KeyClientEntity),
                  JqAlternative(JqIdentifierPath(doc, KeyEntity), JqEmpty))

JqFilter(doc) ==
    JqAlternative(JqIdentifierPath(doc, KeyEntity),
                  JqAlternative(JqIdentifierPath(doc, KeyClientEntity), JqEmpty))

\* jq -r prints a string raw and anything else as JSON text, each with a newline
JqRaw(v) ==
    CASE v.t = "str" -> v.s
      [] v.t = "null" -> StrNull
      [] v.t = "false" -> <<"f","a","l","s","e">>
      [] v.t = "arr" -> <<"[","]">>
      [] OTHER -> <<"{","}">>

(***************************************************************************)
(* Definition files.  kind: "unreadable" (open or read raises),            *)
(* "invalid" (no JSON value can be parsed), "json" (one JSON value),       *)
(* "trailing" (one JSON value followed by text that does not parse).       *)
(***************************************************************************)
Unreadable == [kind |-> "unreadable", doc |-> JNull]
Invalid == [kind |-> "invalid", doc |-> JNull]
JsonFile(doc) == [kind |-> "json", doc |-> doc]
TrailingGarbage(doc) == [kind |-> "trailing", doc |-> doc]

\* the jq process on a file's text: exit status and standard output
JqRun(content) ==
    LET r == JqFilter(content.doc)
        printed == IF r.r = "val" THEN Echo(JqRaw(r.v)) ELSE <<>>
    IN  CASE content.kind = "invalid" -> [returncode |-> 2, stdout |-> <<>>]
          [] content.kind = "trailing" -> [returncode |-> 2, stdout |-> printed]
          [] OTHER -> [returncode |-> IF r.r = "error" THEN 5 ELSE 0, stdout |-> printed]


(***************************************************************************)
(* The filesystem below MINECRAFT_DATA_DIR.  A root directory              *)
(* (behavior_packs, resource_packs) may be absent; a pack is a directory   *)
(* with a basename and, possibly, an entity directory (entities for a      *)
(* behavior pack) holding .json files directly (files) and in deeper       *)
(* subdirectories (nested), each in listing order.                         *)
(***************************************************************************)
NameMyPack == <<"m","y"," ","p","a","c","k">>
NameVanillaX == <<"v","a","n","i","l","l","a","_","x">>
NameChemistry == <<"c","h","e","m","i","s","t","r","y">>
NameExperimentalUi == <<"e","x","p","e","r","i","m","e","n","t","a","l","_","u","i">>
NameEditor1 == <<"e","d","i","t","o","r","1">>

PackNames == {NameMyPack, NameVanillaX, NameChemistry, NameExperimentalUi, NameEditor1}

IdA == <<"m",":","a">>
IdB == <<"m",":","b">>

EntityDoc(key, idv) == JObj(key :> JObj("description" :> JObj("identifier" :> idv)))

\* definition files found in installed resource packs
InventoryContents ==
    { Invalid,
      JsonFile(EntityDoc(KeyEntity, JStr(IdA))),
      JsonFile(EntityDoc(KeyClientEntity, JStr(IdA))) }

\* a definition file in a subdirectory of the entity directory
NestedContents == { JsonFile(EntityDoc(KeyEntity, JStr(IdB))) }

\* a behavior pack's entities/*.json files are only counted, never read
BehaviorJson == JsonFile(JObj(<<>>))

NoSubdir == [exists |-> FALSE, files |-> <<>>, nested |-> <<>>]
EmptySubdir == [exists |-> TRUE, files |-> <<>>, nested |-> <<>>]
NoRoot == [exists |-> FALSE, packs |-> <<>>]
EmptyRoot == [exists |-> TRUE, packs |-> <<>>]

VARIABLES
    behaviorRoot,   \* MINECRAFT_DATA_DIR/behavior_packs
    resourceRoot,   \* MINECRAFT_DATA_DIR/resource_packs
    pc,             \* inventory workflow: "setup", "listed", "parsed"
    listOutput,     \* result.output of the last /api/list response
    addons,         \* what parseAddonList made of listOutput
    scanDir,        \* the entity directory extract_entity_identifiers is called on
    scanIdx,        \* position of its loop in os.listdir(entity_dir)
    scanPc,         \* "idle", "start", "loop", "probing", "returned"
    identifiers,    \* its list of identifiers
    proc,           \* the external process a handler is waiting for
    apiPc,          \* request handling: "idle", "running", "cleanup", "extracting", "responded"
    req,            \* the request being handled
    result,         \* how the process the handler waited for ended
    invoked,        \* command lines of the collaborator scripts started for the request
    uploaded,       \* whether the archive saved for the request is in UPLOAD_FOLDER
    resp,           \* the JSON response
    handlers,       \* concurrent install requests: where each one is, and its upload path
    uploads         \* UPLOAD_FOLDER: for each path, the request whose content it holds (0: no file)

invVars == <<behaviorRoot, resourceRoot, pc, listOutput, addons>>
scanVars == <<scanDir, scanIdx, scanPc, identifiers>>
apiVars == <<apiPc, req, result, invoked, uploaded, resp>>
installVars == <<handlers, uploads>>
vars == <<invVars, scanVars, proc, apiVars, installVars>>
\* what the inventory workflow leaves alone
serviceVars == <<scanVars, proc, apiVars, installVars>>

Root(kind) == IF kind = "behavior" THEN behaviorRoot ELSE resourceRoot

PackCount == Len(behaviorRoot.packs) + Len(resourceRoot.packs)

RECURSIVE SumFiles(_)
SumFiles(packs) ==
    IF packs = <<>> THEN 0
    ELSE Len(Head(packs).sub.files) + Len(Head(packs).sub.nested) + SumFiles(Tail(packs))

FileCount == SumFiles(behaviorRoot.packs) + SumFiles(resourceRoot.packs)

(***************************************************************************)
(* list_addons: the bash inventory walk.                                   *)
(***************************************************************************)
\* =~ ^(vanilla|chemistry|experimental)
BehaviorExcludedPrefixes == {Vanilla, Chemistry, Experimental}
\* (the Behavior list used for the Resource section)
ResourceExcludedPrefixesNoEditor == {Vanilla, Chemistry, Experimental}
\* =~ ^(vanilla|chemistry|editor)
ResourceExcludedPrefixes == {Vanilla, Chemistry, Editor}

\* [[ "$basename_pack" =~ ^(p1|p2|p3) ]]
MatchesPrefix(name, prefixes) == \E p \in prefixes : StartsWith(name, p)

\* find "$dir" -name "*.json": the files at every depth
FindJson(sub) == sub.files \o sub.nested

\* find ... | wc -l
BehaviorEntityCount(pack) ==
    IF pack.sub.exists THEN Len(FindJson(pack.sub)) ELSE 0

BehaviorRecord(pack) ==
    IF BehaviorEntityCount(pack) > 0
    THEN Echo(RecordPrefix \o pack.name \o <<" ", "(">> \o Decimal(BehaviorEntityCount(pack)) \o EntitiesSuffix)
    ELSE Echo(RecordPrefix \o pack.name)

\* entity_count=$(echo "$entity_files" | wc -l): echo prints one line even for no file
ResourceEntityCount(pack) ==
    IF Len(FindJson(pack.sub)) = 0 THEN 1 ELSE Len(FindJson(pack.sub))

\* identifier=$(jq -r '...' "$entity_file" 2>/dev/null), then the two tests
BashSummonLine(content) ==
    LET identifier == IF content.kind = "unreadable" THEN <<>>
                      ELSE StripTrailingNewlines(JqRun(content).stdout)
    IN  IF identifier # <<>> /\ identifier # StrNull
        THEN Echo(SummonPrefix \o identifier)
        ELSE <<>>

RECURSIVE BashSummonLines(_)
BashSummonLines(files) ==
    IF files = <<>> THEN <<>>
    ELSE BashSummonLine(Head(files)) \o BashSummonLines(Tail(files))

ResourceRecord(pack) ==
    IF pack.sub.exists
    THEN IF ResourceEntityCount(pack) > 0
         THEN Echo(RecordPrefix \o pack.name \o <<" ", "(">> \o Decimal(ResourceEntityCount(pack))
                   \o EntitiesSuffix \o <<":">>)
              \o BashSummonLines(FindJson(pack.sub))
         ELSE Echo(RecordPrefix \o pack.name)
    ELSE Echo(RecordPrefix \o pack.name)

RECURSIVE BehaviorSection(_)
BehaviorSection(packs) ==
    IF packs = <<>> THEN <<>>
    ELSE (IF MatchesPrefix(Head(packs).name, BehaviorExcludedPrefixes) THEN <<>>
          ELSE BehaviorRecord(Head(packs)))
         \o BehaviorSection(Tail(packs))

RECURSIVE ResourceSection(_)
ResourceSection(packs) ==
    IF packs = <<>> THEN <<>>
    ELSE (IF MatchesPrefix(Head(packs).name, ResourceExcludedPrefixes) THEN <<>>
          ELSE ResourceRecord(Head(packs)))
         \o ResourceSection(Tail(packs))

\* standard output of the bash script
ListScriptOutput(broot, rroot) ==
    Echo(HeaderBehavior)
    \o (IF broot.exists THEN BehaviorSection(broot.packs) ELSE Echo(NoBehaviorDir))
    \o Echo(<<>>)
    \o Echo(HeaderResource)
    \o (IF rroot.exists THEN ResourceSection(rroot.packs) ELSE Echo(NoResourceDir))

(***************************************************************************)
(* parseAddonList (client side).                                           *)
(***************************************************************************)
\* first position at or after i that holds no whitespace (Len + 1 if none)
RECURSIVE SkipSpaces(_, _)
SkipSpaces(line, i) ==
    IF i <= Len(line) /\ IsSpace(line[i]) THEN SkipSpaces(line, i + 1) ELSE i

\* first position at or after i that holds whitespace or "(" (Len + 1 if none)
RECURSIVE SkipName(_, _)
SkipName(line, i) ==
    IF i <= Len(line) /\ ~IsSpace(line[i]) /\ line[i] # "(" THEN SkipName(line, i + 1) ELSE i

\* line.match(/^\s*-\s*([^\s(]+)(\s*\(.*\))?/)
RecordMatch(line) ==
    LET dash == SkipSpaces(line, 1)
        nameStart == SkipSpaces(line, dash + 1)
        nameEnd == SkipName(line, nameStart)
        open == SkipSpaces(line, nameEnd)
        closes == {k \in (open + 1)..Len(line) : line[k] = ")"}
        lastClose == CHOOSE k \in closes : \A j \in closes : j <= k
        hasDetails == open <= Len(line) /\ line[open] = "(" /\ closes # {}
    IN  IF dash <= Len(line) /\ line[dash] = "-" /\ nameEnd > nameStart
        THEN [matched |-> TRUE,
              name |-> SubSeq(line, nameStart, nameEnd - 1),
              details |-> IF hasDetails THEN Strip(SubSeq(line, nameEnd, lastClose)) ELSE <<>>]
        ELSE [matched |-> FALSE, name |-> <<>>, details |-> <<>>]

\* (a parser that never finds the name among the records it has)
NeverRecorded(acc, name) == FALSE
\* addons.find(function(addon) { return addon.name === name; })
AlreadyRecorded(acc, name) == \E i \in 1..Len(acc) : acc[i].name = name

RECURSIVE ParseLines(_, _, _)
ParseLines(lines, currentSection, acc) ==
    IF lines = <<>> THEN acc
    ELSE LET line == Head(lines)
             m == RecordMatch(line)
         IN  IF Includes(line, HeaderBehavior) THEN ParseLines(Tail(lines), "behavior", acc)
             ELSE IF Includes(line, HeaderResource) THEN ParseLines(Tail(lines), "resource", acc)
             ELSE IF m.matched /\ ~AlreadyRecorded(acc, m.name)
                  THEN ParseLines(Tail(lines), currentSection,
                                  Append(acc, [name |-> m.name, details |-> m.details,
                                               section |-> currentSection]))
                  ELSE ParseLines(Tail(lines), currentSection, acc)

parseAddonList(output) == ParseLines(SplitLines(output), "", <<>>)

(***************************************************************************)
(* Inventory workflow: the install and remove scripts and other tools      *)
(* change the directories; a list request reads them; the page parses the  *)
(* report.                                                                 *)
(***************************************************************************)
InitInventory ==
    /\ behaviorRoot \in {NoRoot, EmptyRoot}
    /\ resourceRoot \in {NoRoot, EmptyRoot}
    /\ pc = "setup"
    /\ listOutput = <<>>
    /\ addons = <<>>

\* a pack directory appears under an existing root; sibling basenames differ
AddPack(kind, name) ==
    /\ pc = "setup"
    /\ PackCount < MaxPacks
    /\ Root(kind).exists
    /\ \A i \in 1..Len(Root(kind).packs) : Root(kind).packs[i].name # name
    /\ LET r == [Root(kind) EXCEPT !.packs = Append(@, [name |-> name, sub |-> NoSubdir])]
       IN  IF kind = "behavior"
           THEN behaviorRoot' = r /\ UNCHANGED resourceRoot
           ELSE resourceRoot' = r /\ UNCHANGED behaviorRoot
    /\ UNCHANGED <<pc, listOutput, addons, serviceVars>>

\* the pack's entity directory (entities for a behavior pack) appears
MakeEntityDir(kind, i) ==
    /\ pc = "setup"
    /\ i \in 1..Len(Root(kind).packs)
    /\ ~Root(kind).packs[i].sub.exists
    /\ LET r == [Root(kind) EXCEPT !.packs[i].sub = EmptySubdir]
       IN  IF kind = "behavior"
           THEN behaviorRoot' = r /\ UNCHANGED resourceRoot
           ELSE resourceRoot' = r /\ UNCHANGED behaviorRoot
    /\ UNCHANGED <<pc, listOutput, addons, serviceVars>>

\* a .json file appears in the entity directory, directly or in a subdirectory
AddJsonFile(kind, i, deep, content) ==
    /\ pc = "setup"
    /\ FileCount < MaxFiles
    /\ i \in 1..Len(Root(kind).packs)
    /\ Root(kind).packs[i].sub.exists
    /\ content \in (IF kind = "behavior" THEN {BehaviorJson}
                    ELSE IF deep THEN NestedContents ELSE InventoryContents)
    /\ LET r == IF deep
                THEN [Root(kind) EXCEPT !.packs[i].sub.nested = Append(@, content)]
                ELSE [Root(kind) EXCEPT !.packs[i].sub.files = Append(@, content)]
       IN  IF kind = "behavior"
           THEN behaviorRoot' = r /\ UNCHANGED resourceRoot
           ELSE resourceRoot' = r /\ UNCHANGED behaviorRoot
    /\ UNCHANGED <<pc, listOutput, addons, serviceVars>>

\* GET /api/list when the bash process finishes in time
ListAddons ==
    /\ pc = "setup"
    /\ pc' = "listed"
    /\ listOutput' = ListScriptOutput(behaviorRoot, resourceRoot)
    /\ UNCHANGED <<behaviorRoot, resourceRoot, addons, serviceVars>>

\* showRemoveForm: const addons = parseAddonList(result.output)
ShowRemoveForm ==
    /\ pc = "listed"
    /\ pc' = "parsed"
    /\ addons' = parseAddonList(listOutput)
    /\ UNCHANGED <<behaviorRoot, resourceRoot, listOutput, serviceVars>>

Kinds == {"behavior", "resource"}

(***************************************************************************)
(* Reading the report text back, for the properties below.                 *)
(***************************************************************************)
ReportLines == SplitLines(listOutput)

\* position of the first line equal to header (0 if none)
HeaderAt(header) ==
    IF \E i \in 1..Len(ReportLines) : ReportLines[i] = header
    THEN CHOOSE i \in 1..Len(ReportLines) :
            ReportLines[i] = header /\ \A j \in 1..(i - 1) : ReportLines[j] # header
    ELSE 0


IsRecordLine(line) == StartsWith(line, RecordPrefix)
IsSummonLine(line) == StartsWith(line, SummonPrefix)
AfterRecordPrefix(line) == SubSeq(line, Len(RecordPrefix) + 1, Len(line))

ResourceCountSuffix == EntitiesSuffix \o <<":">>
HasResourceCount(line) ==
    /\ IsRecordLine(line)
    /\ Len(line) > Len(ResourceCountSuffix)
    /\ SubSeq(line, Len(line) - Len(ResourceCountSuffix) + 1, Len(line)) = ResourceCountSuffix
    /\ \E k \in 1..Len(line) : line[k] = "("

DigitValue(c) == CHOOSE d \in 0..9 : DigitChars[d + 1] = c

RECURSIVE ParseDecimal(_)
ParseDecimal(ds) ==
    IF ds = <<>> THEN 0 ELSE 10 * ParseDecimal(SubSeq(ds, 1, Len(ds) - 1)) + DigitValue(ds[Len(ds)])

\* the N of "  - <name> (<N> entities):"
PrintedCount(line) ==
    LET open == CHOOSE k \in 1..Len(line) : line[k] = "(" /\ \A j \in (k + 1)..Len(line) : line[j] # "("
    IN  ParseDecimal(SubSeq(line, open + 1, Len(line) - Len(ResourceCountSuffix)))

\* number of consecutive /summon lines from position i on
RECURSIVE SummonRun(_, _)
SummonRun(lines, i) ==
    IF i <= Len(lines) /\ IsSummonLine(lines[i]) THEN 1 + SummonRun(lines, i + 1) ELSE 0

CustomPacks(root, prefixes) ==
    {i \in 1..Len(root.packs) : ~MatchesPrefix(root.packs[i].name, prefixes)}

(***************************************************************************)
(* C1: in the report of list_addons, the N of every resource record line   *)
(* "  - <name> (<N> entities):" is the number of "/summon" lines that      *)
(* follow it (one per accepted identifier).                                *)
(***************************************************************************)
C1_CountIsNumberOfSummonLines ==
    pc # "setup" =>
        LET lines == ReportLines
            hr == HeaderAt(HeaderResource)
        IN  \A i \in 1..Len(lines) :
                (hr > 0 /\ i > hr /\ HasResourceCount(lines[i]))
                    => PrintedCount(lines[i]) = SummonRun(lines, i + 1)

(***************************************************************************)
(* C2: round trip.  When the custom packages' names are unique across both *)
(* sections, parseAddonList of the rendered report has exactly one record  *)
(* per package, with the package's basename, its section and the rendered  *)
(* entity-count clause (empty when none was rendered).                     *)
(***************************************************************************)
CountClause(n) == <<"(">> \o Decimal(n) \o EntitiesSuffix

ExpectedBehavior(pack) ==
    [name |-> pack.name,
     details |-> IF BehaviorEntityCount(pack) > 0 THEN CountClause(BehaviorEntityCount(pack)) ELSE <<>>,
     section |-> "behavior"]

ExpectedResource(pack) ==
    [name |-> pack.name,
     details |-> IF pack.sub.exists THEN CountClause(ResourceEntityCount(pack)) ELSE <<>>,
     section |-> "resource"]

ExpectedRecords ==
    {ExpectedBehavior(behaviorRoot.packs[i]) : i \in CustomPacks(behaviorRoot, {Vanilla, Chemistry, Experimental})}
    \cup {ExpectedResource(resourceRoot.packs[i]) : i \in CustomPacks(resourceRoot, {Vanilla, Chemistry, Editor})}

CustomNamesUnique ==
    \A i \in CustomPacks(behaviorRoot, {Vanilla, Chemistry, Experimental}),
       j \in CustomPacks(resourceRoot, {Vanilla, Chemistry, Editor}) :
        behaviorRoot.packs[i].name # resourceRoot.packs[j].name

C2_ParseOfRenderRoundTrip ==
    (pc = "parsed" /\ CustomNamesUnique) =>
        /\ Len(addons) = Cardinality(ExpectedRecords)
        /\ {addons[i] : i \in 1..Len(addons)} = ExpectedRecords

(***************************************************************************)
(* C3: no record line of the Behavior section names a basename starting    *)
(* with vanilla, chemistry or experimental, and no record line of the      *)
(* Resource section one starting with vanilla, chemistry or editor,        *)
(* whatever the directories hold.                                          *)
(***************************************************************************)
C3_ExcludedNeverRendered ==
    pc # "setup" =>
        LET lines == ReportLines
            hb == HeaderAt(HeaderBehavior)
            hr == HeaderAt(HeaderResource)
        IN  \A i \in 1..Len(lines) :
                IsRecordLine(lines[i]) =>
                    /\ (hb < i /\ i < hr) =>
                          ~MatchesPrefix(AfterRecordPrefix(lines[i]), {Vanilla, Chemistry, Experimental})
                    /\ (hr > 0 /\ i > hr) =>
                          ~MatchesPrefix(AfterRecordPrefix(lines[i]), {Vanilla, Chemistry, Editor})

\* a report was rendered while an excluded resource pack held a definition file
\* and an excluded behavior pack had an entities directory
C3_Witness ==
    /\ pc = "listed"
    /\ \E i \in 1..Len(resourceRoot.packs) :
          /\ StartsWith(resourceRoot.packs[i].name, Editor)
          /\ resourceRoot.packs[i].sub.files # <<>>
    /\ \E i \in 1..Len(behaviorRoot.packs) :
          /\ StartsWith(behaviorRoot.packs[i].name, Experimental)
          /\ behaviorRoot.packs[i].sub.exists


(***************************************************************************)
(* extract_entity_identifiers(resource_dir).  An entry of the entity       *)
(* directory is a name that ends with .json or not, and a content.         *)
(***************************************************************************)
JsonEntry(content) == [isJson |-> TRUE, content |-> content]
OtherEntry(content) == [isJson |-> FALSE, content |-> content]

NoEntityDir == [exists |-> FALSE, files |-> <<>>]
EntityDir(entries) == [exists |-> TRUE, files |-> entries]

NoProc == [cmd |-> "none", hasTimeout |-> FALSE, timeout |-> 0]
\* subprocess.run(['jq', ...], input=content, text=True, capture_output=True)
JqProc == [cmd |-> "jq", hasTimeout |-> FALSE, timeout |-> 0]

\* (a scan that gave up at the first file it cannot read)
AbortScan(i, n) == n + 1
\* the inner except clause logs and the for loop goes on with the next entry
AfterFileException(i, n) == i + 1

\* if result.returncode == 0 and result.stdout.strip(): ... identifiers.append(identifier)
AcceptIdentifier(found, jq) ==
    IF jq.returncode = 0 /\ Strip(jq.stdout) # <<>>
    THEN LET identifier == Strip(jq.stdout)
         IN  IF identifier # <<>> /\ identifier # StrNull
             THEN Append(found, identifier)
             ELSE found
    ELSE found

\* identifiers = []; if not os.path.exists(entity_dir): return identifiers
ScanStart ==
    /\ scanPc = "start"
    /\ identifiers' = <<>>
    /\ scanIdx' = 1
    /\ scanPc' = IF scanDir.exists THEN "loop" ELSE "returned"
    /\ UNCHANGED <<scanDir, proc, invVars, apiVars, installVars>>

\* one turn of the for loop up to the start of jq: the name test, open and read
ScanOpenFile ==
    /\ scanPc = "loop"
    /\ scanIdx <= Len(scanDir.files)
    /\ LET entry == scanDir.files[scanIdx]
       IN  IF ~entry.isJson
           THEN scanIdx' = scanIdx + 1 /\ UNCHANGED <<scanPc, proc>>
           ELSE IF entry.content.kind = "unreadable"
           THEN /\ scanIdx' = AfterFileException(scanIdx, Len(scanDir.files))
                /\ UNCHANGED <<scanPc, proc>>
           ELSE /\ proc' = JqProc
                /\ scanPc' = "probing"
                /\ UNCHANGED scanIdx
    /\ UNCHANGED <<scanDir, identifiers, invVars, apiVars, installVars>>

\* jq ends; the rest of the turn
ScanProbeExit ==
    /\ scanPc = "probing"
    /\ proc.cmd = "jq"
    /\ identifiers' = AcceptIdentifier(identifiers, JqRun(scanDir.files[scanIdx].content))
    /\ proc' = NoProc
    /\ scanIdx' = scanIdx + 1
    /\ scanPc' = "loop"
    /\ UNCHANGED <<scanDir, invVars, apiVars, installVars>>

\* return identifiers
ScanReturn ==
    /\ scanPc = "loop"
    /\ scanIdx > Len(scanDir.files)
    /\ scanPc' = "returned"
    /\ UNCHANGED <<scanDir, scanIdx, identifiers, proc, invVars, apiVars, installVars>>

(***************************************************************************)
(* Definition files the scan is run on.                                    *)
(***************************************************************************)
IdentifierValues ==
    { JNull, JFalse, JStr(IdA), JStr(IdB), JStr(StrNull), JStr(<<>>), JStr(<<SP>>),
      JStr(<<SP>> \o IdA \o <<SP>>) }

\* what a document may hold under "minecraft:entity" or "minecraft:client_entity"
SectionValues ==
    { JArr, JObj(<<>>), JObj("description" :> JArr), JObj("description" :> JObj(<<>>)) }
    \cup { JObj("description" :> JObj("identifier" :> v)) : v \in IdentifierValues }

Documents ==
    { JArr, JNull, JObj(<<>>) }
    \cup { JObj(KeyEntity :> e) : e \in SectionValues }
    \cup { JObj(KeyClientEntity :> c) : c \in SectionValues }
    \cup { JObj(KeyEntity :> e @@ KeyClientEntity :> c) : e \in SectionValues, c \in SectionValues }

ProbeContents == { JsonFile(d) : d \in Documents }

ScanContents ==
    { Unreadable, Invalid,
      JsonFile(EntityDoc(KeyEntity, JStr(IdA))),
      JsonFile(EntityDoc(KeyClientEntity, JStr(IdB))),
      TrailingGarbage(EntityDoc(KeyEntity, JStr(IdB))) }

ScanEntries ==
    { JsonEntry(c) : c \in ScanContents } \cup { OtherEntry(JsonFile(EntityDoc(KeyEntity, JStr(IdB)))) }

ScanDirs ==
    { NoEntityDir }
    \cup { EntityDir(<<JsonEntry(c)>>) : c \in ProbeContents }
    \cup UNION { { EntityDir(fs) : fs \in [1..n -> ScanEntries] } : n \in 0..MaxScanFiles }


(***************************************************************************)
(* External processes and run_shell_script.                                *)
(***************************************************************************)
\* timeout=300 of run_shell_script, timeout=60 of the inventory walk (seconds)
ScriptTimeout == 300
WalkTimeout == 60

ScriptTimeoutText == <<"C","o","m","m","a","n","d"," ","t","i","m","e","d"," ","o","u","t"," ","a","f","t","e","r"," ","5"," ","m","i","n","u","t","e","s">>
\* str(e) of the exceptions met below
SpawnErrorText == <<"[","E","r","r","n","o"," ","2","]"," ","N","o"," ","s","u","c","h"," ","f","i","l","e"," ","o","r"," ","d","i","r","e","c","t","o","r","y">>
WalkTimeoutText == <<"C","o","m","m","a","n","d"," ","b","a","s","h"," ","t","i","m","e","d"," ","o","u","t"," ","a","f","t","e","r"," ","6","0"," ","s","e","c","o","n","d","s">>
BadRequestText == <<"4","0","0"," ","B","a","d"," ","R","e","q","u","e","s","t">>
NoGetText == <<"'","l","i","s","t","'"," ","o","b","j","e","c","t"," ","h","a","s"," ","n","o"," ","a","t","t","r","i","b","u","t","e"," ","'","g","e","t","'">>
SaveErrorText == <<"[","E","r","r","n","o"," ","2","8","]"," ","N","o"," ","s","p","a","c","e"," ","l","e","f","t"," ","o","n"," ","d","e","v","i","c","e">>
\* what a script may print
ScriptLog == <<"l","o","g">>
ScriptErr == <<"e","r","r">>

\* how a started process ends: it exits, it outlives the timeout, or it cannot be started
Exited(rc, out, err) == [kind |-> "exit", returncode |-> rc, stdout |-> out, stderr |-> err]
TimedOut == [kind |-> "timeout", returncode |-> 0, stdout |-> <<>>, stderr |-> <<>>]
SpawnFailed == [kind |-> "oserror", returncode |-> 0, stdout |-> <<>>, stderr |-> <<>>]

ScriptOutcomes ==
    { Exited(rc, out, err) : rc \in {0, 1}, out \in {<<>>, ScriptLog}, err \in {<<>>, ScriptErr} }
    \cup {TimedOut, SpawnFailed}

\* subprocess.run(cmd, capture_output=True, text=True, check=False, timeout=300)
ScriptProc(cmd) == [cmd |-> cmd, hasTimeout |-> TRUE, timeout |-> ScriptTimeout]
\* subprocess.run(['bash', '-c', ...], capture_output=True, text=True, timeout=60)
WalkProc == [cmd |-> "bash", hasTimeout |-> TRUE, timeout |-> WalkTimeout]

NoOutcome == [kind |-> "none", returncode |-> 0, stdout |-> <<>>, stderr |-> <<>>]

\* the dictionary run_shell_script returns
RunShellScriptResult(outcome) ==
    CASE outcome.kind = "exit" ->
            [success |-> outcome.returncode = 0, returncode |-> outcome.returncode,
             stdout |-> outcome.stdout, stderr |-> outcome.stderr]
      [] outcome.kind = "timeout" ->
            [success |-> FALSE, returncode |-> -1, stdout |-> <<>>, stderr |-> ScriptTimeoutText]
      [] OTHER ->
            [success |-> FALSE, returncode |-> -1, stdout |-> <<>>, stderr |-> SpawnErrorText]

\* Python's  a or b  on two strings
Or(a, b) == IF a # <<>> THEN a ELSE b

(***************************************************************************)
(* Responses: jsonify({...}), status.  fields is the set of keys present.  *)
(***************************************************************************)
NoResponse ==
    [status |-> 0, fields |-> {}, success |-> FALSE, message |-> "", error |-> <<>>,
     output |-> <<>>, entity_info |-> <<>>, entities |-> <<>>]

\* jsonify({'success': False, 'message': msg}), 400
Rejected(msg) ==
    [NoResponse EXCEPT !.status = 400, !.fields = {"success", "message"}, !.message = msg]

\* jsonify({'success': False, 'message': msg, 'error': detail}), 500
Failed(msg, detail) ==
    [NoResponse EXCEPT !.status = 500, !.fields = {"success", "message", "error"},
                       !.message = msg, !.error = detail]

InternalError(detail) == Failed("Internal server error", detail)

(***************************************************************************)
(* POST /api/remove                                                        *)
(***************************************************************************)
\* JSON values of the fields: absent, true, false, the string "no", the number 0
Truthy(v) == v \in {"true", "str:no"}

ConfirmValues == {"absent", "true", "false", "str:no", "num:0"}
RemoveAllValues == {"absent", "true", "false", "str:no"}
PacksValues ==
    { [present |-> FALSE, isList |-> FALSE, items |-> <<>>],
      [present |-> TRUE, isList |-> FALSE, items |-> <<>>],
      [present |-> TRUE, isList |-> TRUE, items |-> <<>>],
      [present |-> TRUE, isList |-> TRUE, items |-> <<"editor1">>],
      [present |-> TRUE, isList |-> TRUE, items |-> <<"editor1", "my pack">>] }

\* request.get_json(): it raises, or gives None, {}, a non-empty array, a non-empty object
NoData(kind) ==
    [kind |-> kind, confirm |-> "absent", remove_all |-> "absent",
     packs |-> [present |-> FALSE, isList |-> FALSE, items |-> <<>>]]

RemovePayloads ==
    { NoData(k) : k \in {"raises", "none", "empty", "array"} }
    \cup [kind : {"object"}, confirm : ConfirmValues, remove_all : RemoveAllValues, packs : PacksValues]

NoFile == [present |-> FALSE, filename |-> <<>>]

\* (a handler without the test for an empty list)
NeverEmpty(items) == FALSE
\* if not data['packs']
PacksEmpty(items) == items = <<>>

RemoveAllCommand ==
    [script |-> "./remove-mcaddon.sh", mode |-> "all", names |-> <<>>, path |-> <<>>]
RemoveSelectiveCommand(items) ==
    [script |-> "./remove-mcaddon.sh", mode |-> "selective", names |-> items, path |-> <<>>]

\* the handler up to the response or the start of the script:
\* [respond |-> TRUE, resp] or [respond |-> FALSE, command]
RemoveDecision(data) ==
    LET answer(r) == [respond |-> TRUE, resp |-> r, command |-> RemoveAllCommand]
        run(c) == [respond |-> FALSE, resp |-> NoResponse, command |-> c]
    IN  CASE data.kind = "raises" -> answer(InternalError(BadRequestText))
          [] data.kind \in {"none", "empty"} -> answer(Rejected("No JSON data provided"))
          [] data.kind = "array" -> answer(InternalError(NoGetText))
          [] OTHER ->
                IF ~Truthy(data.confirm) THEN answer(Rejected("Confirmation required"))
                ELSE IF Truthy(data.remove_all) THEN run(RemoveAllCommand)
                ELSE IF data.packs.present /\ data.packs.isList
                     THEN IF PacksEmpty(data.packs.items)
                          THEN answer(Rejected("No packs specified for removal"))
                          ELSE run(RemoveSelectiveCommand(data.packs.items))
                     ELSE answer(Rejected("Invalid request format. Use \"remove_all\": true or \"packs\": [...]"))

\* the response once run_shell_script has returned
RemoveResponse(res) ==
    IF res.success
    THEN [NoResponse EXCEPT !.status = 200, !.fields = {"success", "message", "output"},
                            !.success = TRUE, !.message = "Successfully removed addons",
                            !.output = res.stdout]
    ELSE Failed("Failed to remove addons", Or(res.stderr, res.stdout))

RemoveRequest(data) ==
    /\ apiPc = "idle"
    /\ req' = [endpoint |-> "remove", data |-> data, file |-> NoFile]
    /\ LET d == RemoveDecision(data)
       IN  IF d.respond
           THEN /\ resp' = d.resp
                /\ apiPc' = "responded"
                /\ UNCHANGED <<proc, invoked>>
           ELSE /\ proc' = ScriptProc("remove")
                /\ invoked' = Append(invoked, d.command)
                /\ apiPc' = "running"
                /\ UNCHANGED resp
    /\ UNCHANGED <<result, uploaded, scanVars, invVars, installVars>>

RemoveScriptEnds(outcome) ==
    /\ apiPc = "running"
    /\ proc.cmd = "remove"
    /\ outcome.kind = "timeout" => proc.hasTimeout
    /\ result' = outcome
    /\ resp' = RemoveResponse(RunShellScriptResult(outcome))
    /\ proc' = NoProc
    /\ apiPc' = "responded"
    /\ UNCHANGED <<req, invoked, uploaded, scanVars, invVars, installVars>>


(***************************************************************************)
(* POST /api/install                                                       *)
(***************************************************************************)
LowerChar(c) ==
    CASE c = "A" -> "a" [] c = "C" -> "c" [] c = "D" -> "d" [] c = "M" -> "m"
      [] c = "N" -> "n" [] c = "O" -> "o" [] OTHER -> c

Lower(s) == [i \in 1..Len(s) |-> LowerChar(s[i])]

McAddon == <<"m","c","a","d","d","o","n">>

\* '.' in filename and filename.rsplit('.', 1)[1].lower() in ALLOWED_EXTENSIONS
allowed_file(filename) ==
    LET dots == {i \in 1..Len(filename) : filename[i] = "."}
        last == CHOOSE i \in dots : \A j \in dots : j <= i
    IN  dots # {} /\ Lower(SubSeq(filename, last + 1, Len(filename))) = McAddon

\* "_".join(filename.split())
RECURSIVE JoinWords(_)
JoinWords(s) ==
    LET t == LStrip(s)
        e == SkipName(t, 1)
        rest == JoinWords(SubSeq(t, e, Len(t)))
    IN  IF t = <<>> THEN <<>>
        ELSE IF rest = <<>> THEN SubSeq(t, 1, e - 1)
        ELSE SubSeq(t, 1, e - 1) \o <<"_">> \o rest

IsFilenameChar(c) ==
    c \in {"a","b","c","d","e","f","g","h","i","j","k","l","m","n","o","p","q","r","s","t",
           "u","v","w","x","y","z","A","C","D","M","N","O","0","1","2","3","4","5","6","7",
           "8","9","_",".","-"}

IsDotOrUnderscore(c) == c = "." \/ c = "_"

RECURSIVE StripDotsUnderscores(_)
StripDotsUnderscores(s) ==
    IF s # <<>> /\ IsDotOrUnderscore(Head(s)) THEN StripDotsUnderscores(Tail(s))
    ELSE IF s # <<>> /\ IsDotOrUnderscore(s[Len(s)]) THEN StripDotsUnderscores(SubSeq(s, 1, Len(s) - 1))
    ELSE s

\* werkzeug.utils.secure_filename on the characters used here: path separators
\* become spaces, words are joined by "_", other characters are dropped, and
\* leading and trailing "." and "_" are removed
secure_filename(filename) ==
    StripDotsUnderscores(
        SelectSeq(JoinWords([i \in 1..Len(filename) |-> IF filename[i] = "/" THEN SP ELSE filename[i]]),
                  IsFilenameChar))

UploadA == <<"a",".","m","c","a","d","d","o","n">>
UploadMyPack == <<"m","y"," ","p","a","c","k",".","M","C","A","D","D","O","N">>
UploadDotDotA == <<".",".","/","a",".","m","c","a","d","d","o","n">>
UploadZip == <<"a",".","z","i","p">>

\* request.files: no 'file' part, or a part with a filename
UploadedFiles ==
    { NoFile } \cup { [present |-> TRUE, filename |-> f] : f \in {<<>>, UploadA, UploadMyPack, UploadDotDotA, UploadZip} }

InstallCommand(filepath) ==
    [script |-> "./install-mcaddon.sh", mode |-> "install", names |-> <<>>, path |-> filepath]

SummonWith == <<"S","u","m","m","o","n"," ","w","i","t","h",":"," ","/","s","u","m","m","o","n"," ">>
SummonCommands == <<"S","u","m","m","o","n"," ","c","o","m","m","a","n","d","s",":">>
SummonCmd == <<"/","s","u","m","m","o","n"," ">>

RECURSIVE SummonList(_)
SummonList(ids) ==
    IF ids = <<>> THEN <<>> ELSE <<NL>> \o SummonCmd \o Head(ids) \o SummonList(Tail(ids))

\* entity_info (<<>> stands for None)
EntityInfo(ids) ==
    IF ids = <<>> THEN <<>>
    ELSE IF Len(ids) = 1 THEN SummonWith \o ids[1]
    ELSE SummonCommands \o SummonList(ids)

\* the handler up to the response or the start of the install script
InstallRequest(file, saveOk) ==
    /\ apiPc = "idle"
    /\ req' = [endpoint |-> "install", data |-> NoData("none"), file |-> file]
    /\ IF ~file.present
       THEN /\ resp' = Rejected("No file uploaded")
            /\ apiPc' = "responded"
            /\ UNCHANGED <<proc, invoked, uploaded>>
       ELSE IF file.filename = <<>>
       THEN /\ resp' = Rejected("No file selected")
            /\ apiPc' = "responded"
            /\ UNCHANGED <<proc, invoked, uploaded>>
       ELSE IF ~allowed_file(file.filename)
       THEN /\ resp' = Rejected("Invalid file type. Only .mcaddon files are allowed.")
            /\ apiPc' = "responded"
            /\ UNCHANGED <<proc, invoked, uploaded>>
       ELSE IF ~saveOk
       THEN \* file.save raises: except Exception
            /\ resp' = InternalError(SaveErrorText)
            /\ apiPc' = "responded"
            /\ UNCHANGED <<proc, invoked, uploaded>>
       ELSE /\ uploaded' = TRUE
            /\ proc' = ScriptProc("install")
            /\ invoked' = Append(invoked, InstallCommand(secure_filename(file.filename)))
            /\ apiPc' = "running"
            /\ UNCHANGED resp
    /\ UNCHANGED <<result, scanVars, invVars, installVars>>

\* the response when the install script did not succeed
InstallFailureResponse(res) ==
    Failed("Failed to install <filename>", Or(res.stderr, res.stdout))

\* run_shell_script returns; os.remove(filepath); on success the scan of
\* resource_packs/<addon_name>, whose entity directory is dir, begins
InstallScriptEnds(outcome, dir) ==
    /\ apiPc = "running"
    /\ proc.cmd = "install"
    /\ outcome.kind = "timeout" => proc.hasTimeout
    /\ result' = outcome
    /\ proc' = NoProc
    /\ uploaded' = FALSE
    /\ LET res == RunShellScriptResult(outcome)
       IN  IF res.success
           THEN /\ scanDir' = dir
                /\ scanPc' = "start"
                /\ apiPc' = "extracting"
                /\ UNCHANGED <<resp, scanIdx, identifiers>>
           ELSE /\ dir = NoEntityDir
                /\ resp' = InstallFailureResponse(res)
                /\ apiPc' = "responded"
                /\ UNCHANGED scanVars
    /\ UNCHANGED <<req, invoked, invVars, installVars>>

\* extract_entity_identifiers has returned: the success response
InstallRespond ==
    /\ apiPc = "extracting"
    /\ scanPc = "returned"
    /\ resp' = [NoResponse EXCEPT
                   !.status = 200,
                   !.fields = {"success", "message", "output", "entity_info", "entity_count", "entities"},
                   !.success = TRUE,
                   !.message = "Successfully installed <filename>",
                   !.output = result.stdout,
                   !.entity_info = EntityInfo(identifiers),
                   !.entities = identifiers]
    /\ apiPc' = "responded"
    /\ UNCHANGED <<req, result, invoked, uploaded, proc, scanVars, invVars, installVars>>

(***************************************************************************)
(* GET /api/list                                                           *)
(***************************************************************************)
ListRequest ==
    /\ apiPc = "idle"
    /\ req' = [endpoint |-> "list", data |-> NoData("none"), file |-> NoFile]
    /\ proc' = WalkProc
    /\ apiPc' = "running"
    /\ UNCHANGED <<result, invoked, uploaded, resp, scanVars, invVars, installVars>>

\* how the bash process may end, given the directories it walks
WalkOutcomes ==
    { Exited(rc, ListScriptOutput(behaviorRoot, resourceRoot), err) : rc \in {0, 1}, err \in {<<>>, ScriptErr} }
    \cup {TimedOut, SpawnFailed}

\* subprocess.run returns or raises; the returncode is not looked at
ListResponse(outcome) ==
    CASE outcome.kind = "exit" ->
            [NoResponse EXCEPT !.status = 200, !.fields = {"success", "output", "packs"},
                               !.success = TRUE, !.output = outcome.stdout]
      [] outcome.kind = "timeout" -> InternalError(WalkTimeoutText)
      [] OTHER -> InternalError(SpawnErrorText)

ListWalkEnds(outcome) ==
    /\ apiPc = "running"
    /\ proc.cmd = "bash"
    /\ outcome.kind = "timeout" => proc.hasTimeout
    /\ result' = outcome
    /\ resp' = ListResponse(outcome)
    /\ proc' = NoProc
    /\ apiPc' = "responded"
    /\ UNCHANGED <<req, invoked, uploaded, scanVars, invVars, installVars>>

(***************************************************************************)
(* Specifications.                                                         *)
(***************************************************************************)
NoRequest == [endpoint |-> "none", data |-> NoData("none"), file |-> NoFile]

ScanAtRest ==
    /\ scanDir = NoEntityDir
    /\ scanIdx = 1
    /\ scanPc = "idle"
    /\ identifiers = <<>>

ApiAtRest ==
    /\ apiPc = "idle"
    /\ req = NoRequest
    /\ result = NoOutcome
    /\ invoked = <<>>
    /\ uploaded = FALSE
    /\ resp = NoResponse

\* the names under which the accepted uploads are saved
UploadPaths ==
    { secure_filename(f.filename) :
        f \in { u \in UploadedFiles : u.present /\ u.filename # <<>> /\ allowed_file(u.filename) } }

Requests == 1..MaxRequests

InstallsAtRest ==
    /\ handlers = [r \in Requests |-> [pc |-> "idle", filename |-> <<>>, filepath |-> <<>>]]
    /\ uploads = [path \in UploadPaths |-> 0]

\* the inventory: directories change, a report is rendered and parsed
Init == InitInventory /\ ScanAtRest /\ proc = NoProc /\ ApiAtRest /\ InstallsAtRest

Next ==
    \/ \E kind \in Kinds, name \in PackNames : AddPack(kind, name)
    \/ \E kind \in Kinds, i \in 1..MaxPacks : MakeEntityDir(kind, i)
    \/ \E kind \in Kinds, i \in 1..MaxPacks, deep \in BOOLEAN,
          content \in InventoryContents \cup NestedContents \cup {BehaviorJson} :
          AddJsonFile(kind, i, deep, content)
    \/ ListAddons
    \/ ShowRemoveForm

Spec == Init /\ [][Next]_vars

\* extract_entity_identifiers on an entity directory
InitScan ==
    /\ behaviorRoot = NoRoot
    /\ resourceRoot = NoRoot
    /\ pc = "setup"
    /\ listOutput = <<>>
    /\ addons = <<>>
    /\ scanDir \in ScanDirs
    /\ scanIdx = 1
    /\ scanPc = "start"
    /\ identifiers = <<>>
    /\ proc = NoProc
    /\ ApiAtRest
    /\ InstallsAtRest

NextScan == ScanStart \/ ScanOpenFile \/ ScanProbeExit \/ ScanReturn

SpecScan == InitScan /\ [][NextScan]_vars

\* one request to the service
InitApi ==
    /\ behaviorRoot \in {NoRoot, EmptyRoot}
    /\ resourceRoot \in {NoRoot, EmptyRoot}
    /\ pc = "setup"
    /\ listOutput = <<>>
    /\ addons = <<>>
    /\ ScanAtRest
    /\ proc = NoProc
    /\ ApiAtRest
    /\ InstallsAtRest

InstalledEntityDirs ==
    { NoEntityDir } \cup UNION { { EntityDir(fs) : fs \in [1..n -> ScanEntries] } : n \in 0..MaxScanFiles }

NextApi ==
    \/ \E file \in UploadedFiles, saveOk \in BOOLEAN : InstallRequest(file, saveOk)
    \/ \E outcome \in ScriptOutcomes, dir \in InstalledEntityDirs : InstallScriptEnds(outcome, dir)
    \/ ScanStart
    \/ ScanOpenFile
    \/ ScanProbeExit
    \/ ScanReturn
    \/ InstallRespond
    \/ \E data \in RemovePayloads : RemoveRequest(data)
    \/ \E outcome \in ScriptOutcomes : RemoveScriptEnds(outcome)
    \/ ListRequest
    \/ \E outcome \in WalkOutcomes : ListWalkEnds(outcome)

SpecApi == InitApi /\ [][NextApi]_vars


(***************************************************************************)
(* Properties of the request handlers (SpecApi).                           *)
(***************************************************************************)
IsRemoval == req.endpoint = "remove" /\ req.data.kind \in {"object", "empty"}

\* a 400 response with success = false
ValidationFailure == resp.status = 400 /\ ~resp.success

NotInvokedAndRejected ==
    /\ invoked = <<>>
    /\ apiPc = "responded" => ValidationFailure

(***************************************************************************)
(* C4: a removal request whose confirm field is not true (absent, false    *)
(* or any other value) is rejected with a validation failure and the       *)
(* remove script is never started for it.                                  *)
(***************************************************************************)
C4_UnconfirmedRemovalRejected ==
    (IsRemoval /\ req.data.confirm # "true") => NotInvokedAndRejected

(***************************************************************************)
(* C5 as stated: a removal request whose packs list is empty is rejected   *)
(* with a validation failure before the remove script is started,          *)
(* whatever else the payload carries.                                      *)
(***************************************************************************)
HasEmptyPacksList ==
    IsRemoval /\ req.data.packs.present /\ req.data.packs.isList /\ req.data.packs.items = <<>>

C5_EmptyPacksRejected == HasEmptyPacksList => NotInvokedAndRejected

(***************************************************************************)
(* C5 amended: a removal request whose packs list is empty and whose       *)
(* remove_all field is absent or falsy is rejected with a validation       *)
(* failure before the remove script is started, whatever else the payload  *)
(* carries.                                                                *)
(***************************************************************************)
C5_EmptyPacksRejectedUnlessRemoveAll ==
    (HasEmptyPacksList /\ req.data.remove_all \in {"absent", "false"}) => NotInvokedAndRejected

\* a confirmed request with an empty list and no remove_all was answered
C5_Witness ==
    /\ apiPc = "responded"
    /\ HasEmptyPacksList
    /\ req.data.confirm = "true"
    /\ req.data.remove_all = "absent"
    /\ resp.message = "No packs specified for removal"

(***************************************************************************)
(* C6: for the install script, the remove script and the inventory walk,   *)
(* the response after a timeout differs from every response after a        *)
(* non-zero exit of the process, and both report a failure.                *)
(***************************************************************************)
NonZeroExits(outcomes) == {o \in outcomes : o.kind = "exit" /\ o.returncode # 0}

ResponsesToNonZeroExit ==
    CASE req.endpoint = "install" ->
            {InstallFailureResponse(RunShellScriptResult(o)) : o \in NonZeroExits(ScriptOutcomes)}
      [] req.endpoint = "remove" ->
            {RemoveResponse(RunShellScriptResult(o)) : o \in NonZeroExits(ScriptOutcomes)}
      [] req.endpoint = "list" ->
            {ListResponse(o) : o \in NonZeroExits(WalkOutcomes)}
      [] OTHER -> {}

C6_TimeoutDistinctFromExitFailure ==
    apiPc = "responded" =>
        /\ result.kind = "timeout" => (~resp.success /\ resp \notin ResponsesToNonZeroExit)
        /\ (result.kind = "exit" /\ result.returncode # 0) => ~resp.success

(***************************************************************************)
(* C7: every external process a request waits for (install script, remove  *)
(* script, inventory walk, jq probe) was started with a timeout, so no     *)
(* request waits for ever.                                                 *)
(***************************************************************************)
C7_EveryProcessHasTimeout ==
    proc.cmd # "none" => (proc.hasTimeout /\ proc.timeout > 0)

(***************************************************************************)
(* C8: every response carries success and message, and every response      *)
(* with success = false carries error as well.                             *)
(***************************************************************************)
C8_ResponseShape ==
    apiPc = "responded" =>
        /\ {"success", "message"} \subseteq resp.fields
        /\ ~resp.success => "error" \in resp.fields

(***************************************************************************)
(* Properties of extract_entity_identifiers (SpecScan).                    *)
(***************************************************************************)
\* the member of an object, null when there is none
MemberOrNull(v, key) == IF v.t = "obj" /\ key \in DOMAIN v.f THEN v.f[key] ELSE JNull

\* <section>.description.identifier as the file declares it
DeclaredIdentifier(doc, section) ==
    MemberOrNull(MemberOrNull(MemberOrNull(doc, section), "description"), "identifier")

TextOf(v) == IF v.t = "str" THEN v.s ELSE IF v.t = "false" THEN <<"f","a","l","s","e">> ELSE <<>>

\* nothing for an absent value, "null" or blank text; the trimmed text otherwise
Contribution(v) ==
    IF v = JNull \/ TextOf(v) = StrNull \/ Strip(TextOf(v)) = <<>> THEN <<>> ELSE <<Strip(TextOf(v))>>

SingleFileScanDone ==
    scanPc = "returned" /\ scanDir.exists /\ Len(scanDir.files) = 1 /\ scanDir.files[1].isJson

(***************************************************************************)
(* C9 as stated: the probe contributes the minecraft:entity identifier     *)
(* when that is a non-null value, otherwise the minecraft:client_entity    *)
(* identifier when that is a non-null value, and nothing when the resolved *)
(* value is absent, "null" or blank.                                       *)
(***************************************************************************)
ResolvedNonNull(doc) ==
    IF DeclaredIdentifier(doc, KeyEntity) # JNull THEN DeclaredIdentifier(doc, KeyEntity)
    ELSE DeclaredIdentifier(doc, KeyClientEntity)

NullOrFalse(v) == v = JNull \/ v = JFalse

ResolvedTruthy(doc) ==
    IF ~NullOrFalse(DeclaredIdentifier(doc, KeyEntity)) THEN DeclaredIdentifier(doc, KeyEntity)
    ELSE IF ~NullOrFalse(DeclaredIdentifier(doc, KeyClientEntity)) THEN DeclaredIdentifier(doc, KeyClientEntity)
    ELSE JNull

ExpectedOf(entry) ==
    IF entry.isJson /\ entry.content.kind = "json"
    THEN Contribution(ResolvedTruthy(entry.content.doc))
    ELSE <<>>

RECURSIVE ExpectedIdentifiers(_)
ExpectedIdentifiers(entries) ==
    IF entries = <<>> THEN <<>> ELSE ExpectedOf(Head(entries)) \o ExpectedIdentifiers(Tail(entries))

C10_BadFileDoesNotStopScan ==
    scanPc = "returned" => identifiers = ExpectedIdentifiers(scanDir.files)

\* a scan returned the identifier of a file listed after an unreadable one
C10_Witness ==
    /\ scanPc = "returned"
    /\ \E i, j \in 1..Len(scanDir.files) :
          /\ i < j
          /\ scanDir.files[i].isJson
          /\ scanDir.files[i].content.kind = "unreadable"
          /\ ExpectedOf(scanDir.files[j]) # <<>>
    /\ identifiers # <<>>

(***************************************************************************)
(* Further properties of the inventory report (Spec).                      *)
(***************************************************************************)
ResourceCustom == CustomPacks(resourceRoot, {Vanilla, Chemistry, Editor})
BehaviorCustom == CustomPacks(behaviorRoot, {Vanilla, Chemistry, Experimental})

\* the package has no definition file: no entity directory, or one without .json
NoDefinitionFile(pack) ==
    ~pack.sub.exists \/ (pack.sub.files = <<>> /\ pack.sub.nested = <<>>)

(***************************************************************************)
(* C11: a custom resource package with no entity directory, or with an     *)
(* entity directory holding no .json file, is rendered as the bare line    *)
(* "  - <name>": no count clause, and no /summon line after it.            *)
(***************************************************************************)
C11_ZeroCountIsBareLine ==
    pc # "setup" =>
        LET lines == ReportLines
            hr == HeaderAt(HeaderResource)
        IN  \A p \in ResourceCustom :
                NoDefinitionFile(resourceRoot.packs[p]) =>
                    \E i \in 1..Len(lines) :
                        /\ i > hr
                        /\ lines[i] = RecordPrefix \o resourceRoot.packs[p].name
                        /\ ~(i < Len(lines) /\ IsSummonLine(lines[i + 1]))

\* number of .json files directly under <pack>/entities, 0 when it is absent
DirectJsonCount(pack) == IF pack.sub.exists THEN Len(pack.sub.files) ELSE 0

(***************************************************************************)
(* C12: every custom behavior package is rendered with the number of .json *)
(* files directly under its entities directory (deeper files not counted,  *)
(* 0 when entities is absent), as "  - <name> (<N> entities)" when that    *)
(* number is positive and as "  - <name>" when it is 0.                    *)
(***************************************************************************)
C12_BehaviorCountIsDirectFiles ==
    pc # "setup" =>
        LET lines == ReportLines
            hb == HeaderAt(HeaderBehavior)
            hr == HeaderAt(HeaderResource)
        IN  \A p \in BehaviorCustom :
                \E i \in 1..Len(lines) :
                    /\ hb < i /\ i < hr
                    /\ lines[i] = RecordPrefix \o behaviorRoot.packs[p].name
                                  \o (IF DirectJsonCount(behaviorRoot.packs[p]) > 0
                                      THEN <<" ">> \o CountClause(DirectJsonCount(behaviorRoot.packs[p]))
                                      ELSE <<>>)

(***************************************************************************)
(* parseAddonList on any text: the page hands it result.output, whatever   *)
(* that holds.                                                             *)
(***************************************************************************)
LineA == RecordPrefix \o <<"a">>
LineACount == RecordPrefix \o <<"a">> \o <<" ">> \o CountClause(2)
LineBCount == RecordPrefix \o <<"b">> \o <<" ">> \o CountClause(1) \o <<":">>
LineSummon == SummonPrefix \o IdA

SampleLines ==
    {HeaderBehavior, HeaderResource, LineA, LineACount, LineBCount, LineSummon, <<>>, NoResourceDir}

RECURSIVE EchoAll(_)
EchoAll(ls) == IF ls = <<>> THEN <<>> ELSE Echo(Head(ls)) \o EchoAll(Tail(ls))

ParseInputs == UNION { { EchoAll(ls) : ls \in [1..n -> SampleLines] } : n \in 0..MaxLines }

InitParse ==
    /\ behaviorRoot = NoRoot
    /\ resourceRoot = NoRoot
    /\ pc = "listed"
    /\ listOutput \in ParseInputs
    /\ addons = <<>>
    /\ ScanAtRest
    /\ proc = NoProc
    /\ ApiAtRest
    /\ InstallsAtRest

NextParse == ShowRemoveForm

SpecParse == InitParse /\ [][NextParse]_vars

\* the line is one of the two section headers
IsHeaderLine(line) == Includes(line, HeaderBehavior) \/ Includes(line, HeaderResource)

\* the line is a record line naming name
NamesRecord(line, name) ==
    ~IsHeaderLine(line) /\ RecordMatch(line).matched /\ RecordMatch(line).name = name

\* the section the k-th line lies in: that of the last header before it
SectionAt(lines, k) ==
    LET hs == {j \in 1..(k - 1) : IsHeaderLine(lines[j])}
        last == CHOOSE j \in hs : \A h \in hs : h <= j
    IN  IF hs = {} THEN ""
        ELSE IF Includes(lines[last], HeaderBehavior) THEN "behavior" ELSE "resource"

\* position of the first record line naming name
FirstRecordLine(lines, name) ==
    CHOOSE k \in 1..Len(lines) :
        NamesRecord(lines[k], name) /\ \A j \in 1..(k - 1) : ~NamesRecord(lines[j], name)

IsSkippedLine(line) ==
    IsSummonLine(line) \/ Strip(line) = <<>> \/ line \in {NoBehaviorDir, NoResourceDir}

(***************************************************************************)
(* C13: after parseAddonList, no two records have the same name; every     *)
(* record carries the section and details of the first record line with    *)
(* its name, and every name of a record line has a record; /summon lines,  *)
(* blank lines and sentinel lines add no record.                           *)
(***************************************************************************)
C13_FirstOccurrenceWins ==
    pc = "parsed" =>
        LET lines == SplitLines(listOutput)
        IN  /\ \A i, j \in 1..Len(addons) : addons[i].name = addons[j].name => i = j
            /\ \A i \in 1..Len(addons) :
                  /\ \E k \in 1..Len(lines) : NamesRecord(lines[k], addons[i].name)
                  /\ ~IsSkippedLine(lines[FirstRecordLine(lines, addons[i].name)])
                  /\ addons[i].details = RecordMatch(lines[FirstRecordLine(lines, addons[i].name)]).details
                  /\ addons[i].section = SectionAt(lines, FirstRecordLine(lines, addons[i].name))
            /\ \A k \in 1..Len(lines) :
                  (~IsHeaderLine(lines[k]) /\ RecordMatch(lines[k]).matched)
                      => \E i \in 1..Len(addons) : addons[i].name = RecordMatch(lines[k]).name
            /\ Len(addons) <= Cardinality({k \in 1..Len(lines) : ~IsSkippedLine(lines[k]) /\ ~IsHeaderLine(lines[k])})

\* the name a was parsed from a text that has it first with a count, then,
\* after a header, without one
C13_Witness ==
    /\ pc = "parsed"
    /\ listOutput = EchoAll(<<LineACount, HeaderResource, LineA>>)
    /\ addons = <<[name |-> <<"a">>, details |-> CountClause(2), section |-> ""]>>

(***************************************************************************)
(* The two readers of a resource package's entity directory: the bash walk *)
(* of list_addons and extract_entity_identifiers, which install_addon      *)
(* calls on resource_packs/<addon_name>.                                   *)
(***************************************************************************)
RECURSIVE JsonEntries(_)
JsonEntries(files) ==
    IF files = <<>> THEN <<>> ELSE <<JsonEntry(Head(files))>> \o JsonEntries(Tail(files))

\* os.listdir(entity_dir): the .json files of the directory itself and, when
\* it has one, the name of its subdirectory
ListDir(sub) ==
    IF ~sub.exists THEN NoEntityDir
    ELSE EntityDir(JsonEntries(sub.files)
                   \o (IF sub.nested = <<>> THEN <<>> ELSE <<OtherEntry(Unreadable)>>))

\* entity_identifiers = extract_entity_identifiers(resource_dir)
ExtractIdentifiers(i) ==
    /\ scanPc = "idle"
    /\ i \in 1..Len(resourceRoot.packs)
    /\ scanDir' = ListDir(resourceRoot.packs[i].sub)
    /\ scanPc' = "start"
    /\ UNCHANGED <<scanIdx, identifiers, proc, invVars, apiVars, installVars>>

EntitySubdirs ==
    { NoSubdir }
    \cup { [exists |-> TRUE, files |-> fs, nested |-> ns] :
             fs \in UNION { [1..n -> ScanContents] : n \in 0..MaxScanFiles },
             ns \in { <<>> } \cup { <<c>> : c \in NestedContents } }

InitAgree ==
    /\ behaviorRoot = NoRoot
    /\ \E sub \in EntitySubdirs :
          resourceRoot = [exists |-> TRUE, packs |-> <<[name |-> NameMyPack, sub |-> sub]>>]
    /\ pc = "setup"
    /\ listOutput = <<>>
    /\ addons = <<>>
    /\ ScanAtRest
    /\ proc = NoProc
    /\ ApiAtRest
    /\ InstallsAtRest

NextAgree ==
    \/ ListAddons
    \/ ExtractIdentifiers(1)
    \/ ScanStart
    \/ ScanOpenFile
    \/ ScanProbeExit
    \/ ScanReturn

SpecAgree == InitAgree /\ [][NextAgree]_vars

\* the identifiers of the report's /summon lines
SummonedAt(lines) == {k \in 1..Len(lines) : IsSummonLine(lines[k])}
SummonedIdentifier(line) == SubSeq(line, Len(SummonPrefix) + 1, Len(line))

(***************************************************************************)
(* C14: for a resource package, the identifiers extract_entity_identifiers *)
(* returns are, with the same multiplicities, the identifiers of the       *)
(* /summon lines list_addons renders for the package.                      *)
(***************************************************************************)
C14_CallSitesAgree ==
    (pc = "listed" /\ scanPc = "returned") =>
        LET lines == ReportLines
            all == {identifiers[i] : i \in 1..Len(identifiers)}
                   \cup {SummonedIdentifier(lines[k]) : k \in SummonedAt(lines)}
        IN  \A x \in all :
                Cardinality({i \in 1..Len(identifiers) : identifiers[i] = x})
                    = Cardinality({k \in SummonedAt(lines) : SummonedIdentifier(lines[k]) = x})

(***************************************************************************)
(* Install requests handled at the same time.  Each handler saves its      *)
(* upload under UPLOAD_FOLDER, runs the install script on that path, and   *)
(* removes the path when the script has returned; nothing orders the       *)
(* steps of one handler against those of another.                          *)
(***************************************************************************)
\* filename = secure_filename(file.filename); file.save(filepath)
SaveUpload(r, file) ==
    /\ handlers[r].pc = "idle"
    /\ file.present /\ file.filename # <<>> /\ allowed_file(file.filename)
    /\ handlers' = [handlers EXCEPT ![r] = [pc |-> "saved", filename |-> file.filename,
                                            filepath |-> secure_filename(file.filename)]]
    /\ uploads' = [uploads EXCEPT ![secure_filename(file.filename)] = r]
    /\ UNCHANGED <<invVars, scanVars, proc, apiVars>>

\* run_shell_script('./install-mcaddon.sh', filepath): the script starts
StartInstallScript(r) ==
    /\ handlers[r].pc = "saved"
    /\ handlers' = [handlers EXCEPT ![r].pc = "running"]
    /\ UNCHANGED <<uploads, invVars, scanVars, proc, apiVars>>

\* the script ends, or its timeout expires
InstallScriptReturns(r) ==
    /\ handlers[r].pc = "running"
    /\ handlers' = [handlers EXCEPT ![r].pc = "returned"]
    /\ UNCHANGED <<uploads, invVars, scanVars, proc, apiVars>>

\* try: os.remove(filepath) except: pass
RemoveUpload(r) ==
    /\ handlers[r].pc = "returned"
    /\ handlers' = [handlers EXCEPT ![r].pc = "done"]
    /\ uploads' = [uploads EXCEPT ![handlers[r].filepath] = 0]
    /\ UNCHANGED <<invVars, scanVars, proc, apiVars>>

InitInstalls ==
    /\ behaviorRoot = NoRoot
    /\ resourceRoot = NoRoot
    /\ pc = "setup"
    /\ listOutput = <<>>
    /\ addons = <<>>
    /\ ScanAtRest
    /\ proc = NoProc
    /\ ApiAtRest
    /\ InstallsAtRest

NextInstalls ==
    \/ \E r \in Requests, file \in UploadedFiles : SaveUpload(r, file)
    \/ \E r \in Requests : StartInstallScript(r)
    \/ \E r \in Requests : InstallScriptReturns(r)
    \/ \E r \in Requests : RemoveUpload(r)

SpecInstalls == InitInstalls /\ [][NextInstalls]_vars

(***************************************************************************)
(* C15: under any interleaving of install requests, while a request's      *)
(* install script runs, the file at the request's upload path exists and   *)
(* holds that request's own upload; it is removed only after that          *)
(* request's script has returned.                                          *)
(***************************************************************************)
C15_UploadKeptWhileScriptRuns ==
    \A r \in Requests :
        handlers[r].pc = "running" => uploads[handlers[r].filepath] = r

=============================================================================
